---------------------------- MODULE Spec2Model ----------------------------
(***************************************************************************)
(* Model of the Prettymapp Generator: src/utils.py (generate_map and the   *)
(* preset accessors) and src/app.py (the Streamlit script, which the       *)
(* framework reruns top to bottom on every interaction of a session).      *)
(*                                                                         *)
(* Python values are tagged pairs <<tag, payload>>, so that values of      *)
(* different Python types can be compared.  A Python str is a sequence of  *)
(* tokens: a token is a piece of text without a comma, and "," is a token  *)
(* of its own, so that ",".join and str.split(",") are computed, not       *)
(* assumed.  A dict is a function from its keys.  The category dicts of    *)
(* the presets are objects of a heap, because dict.copy() is shallow and   *)
(* the script writes through the copies.                                   *)
(***************************************************************************)
EXTENDS Integers, Sequences, FiniteSets, TLC

VARIABLES
    heap,           \* object id -> dict: the category dicts (presets' and arguments')
    session_state,  \* session -> [drawn_polygon, map_fig, map_data]
    req,            \* the arguments of the latest generate_map call
    pc,             \* "idle" | "ready" | "returned" | "raised" | "resolved": the latest call
    error,          \* what the latest call raised ("" when it did not)
    trace,          \* the steps the latest call ran, in order
    fetched,        \* the calls of get_osm_geometries in the latest call
    rendered,       \* the calls of Plot in the latest call
    shown,          \* what the latest script run put on the page
    nreq,           \* generate_map calls made so far (numbers the tables and handles)
    crs             \* the projected reference system resolved for req (None before)

vars ==
    <<heap, session_state, req, pc, error, trace, fetched, rendered, shown, nreq, crs>>

----------------------------------------------------------------------------
(* Python values *)

None == <<"None", 0>>
PyInt(n) == <<"int", n>>
PyBool(b) == <<"bool", b>>
PyStr(t) == <<"str", t>>
PyList(l) == <<"list", l>>
PyDict(n) == <<"dict", n>>

\* A one-token text.
T(tok) == <<tok>>
S(tok) == PyStr(T(tok))

Tag(v) == v[1]
Val(v) == v[2]

\* Python truthiness of a value (if x:).
PyTruthy(v) ==
    CASE Tag(v) = "None" -> FALSE
      [] Tag(v) = "bool" -> Val(v)
      [] Tag(v) = "int" -> Val(v) # 0
      [] Tag(v) = "str" -> Val(v) # <<>>
      [] Tag(v) = "list" -> Val(v) # <<>>
      [] OTHER -> TRUE

EmptyDict == <<>>

\* if d: for a dict argument.  The arguments custom_settings, custom_landcover and
\* plot_options default to None, which the code only ever tests for truth, as it
\* does an empty dict: None is modelled as the empty dict.
DictTruthy(d) == DOMAIN d # {}

\* d.update(e)
DictUpdate(d, e) ==
    [k \in (DOMAIN d) \cup (DOMAIN e) |-> IF k \in DOMAIN e THEN e[k] ELSE d[k]]

\* {k: d[k] for k in ks}
Restrict(d, ks) == [k \in ks |-> d[k]]

----------------------------------------------------------------------------
(* str.join and str.split *)

Comma == ","

\* ",".join(l) for a list l of texts
RECURSIVE Join(_)
Join(l) ==
    IF l = <<>> THEN <<>>
    ELSE IF Len(l) = 1 THEN l[1]
    ELSE l[1] \o <<Comma>> \o Join(Tail(l))

\* t.split(","): never empty, "" gives [""]
RECURSIVE Split(_)
Split(t) ==
    IF \A i \in 1..Len(t) : t[i] # Comma THEN <<t>>
    ELSE LET i == CHOOSE j \in 1..Len(t) :
                      t[j] = Comma /\ \A k \in 1..(j - 1) : t[k] # Comma
         IN <<SubSeq(t, 1, i - 1)>> \o Split(SubSeq(t, i + 1, Len(t)))


----------------------------------------------------------------------------
(* The presets of prettymapp.settings.  The library is not part of the      *)
(* repository: the tables below stand in for it, with the shape the script  *)
(* relies on (category -> key -> number, string, list of strings or other). *)

StyleNames == {"Peach", "Flat"}
StyleCategories == {"urban", "streets"}
LandcoverCategories == {"urban", "water"}

\* STYLES: style name -> category -> the category's dict (an object of the heap).
STYLES == [name \in StyleNames |-> [cat \in StyleCategories |-> <<name, cat>>]]

\* LANDCOVER_CLASSES: category -> the category's dict (an object of the heap).
LANDCOVER_CLASSES == [cat \in LandcoverCategories |-> <<"LANDCOVER_CLASSES", cat>>]

PresetObjects ==
    {STYLES[n][c] : n \in StyleNames, c \in StyleCategories}
        \cup {LANDCOVER_CLASSES[c] : c \in LandcoverCategories}

\* The contents of the presets' category dicts when the process starts.
PresetContents(o) ==
    CASE o = <<"Peach", "urban">> ->
            [cmap |-> PyList(<<T("#FFC857"), T("#E9724C")>>), lw |-> PyInt(1)]
      [] o = <<"Peach", "streets">> ->
            [ec |-> S("#2F3034"), width |-> PyDict(1)]
      [] o = <<"Flat", "urban">> ->
            [cmap |-> PyList(<<T("#433633")>>), lw |-> PyInt(0)]
      [] o = <<"Flat", "streets">> ->
            [ec |-> S("#F5F5F5"), width |-> PyDict(2)]
      [] o = <<"LANDCOVER_CLASSES", "urban">> ->
            [building |-> PyBool(TRUE),
             landuse |-> PyList(<<T("residential")>>)]
      [] o = <<"LANDCOVER_CLASSES", "water">> ->
            [natural |-> PyList(<<T("water")>>)]

\* A dict of category dicts, read through the heap h.
Deref(h, d) == [cat \in DOMAIN d |-> h[d[cat]]]

\* get_available_themes
get_available_themes == DOMAIN STYLES

\* get_default_style: STYLES["Peach"].copy() is a new top-level dict holding the
\* preset's own category dicts.
get_default_style == [cat \in DOMAIN STYLES["Peach"] |-> STYLES["Peach"][cat]]

\* get_default_landcover: LANDCOVER_CLASSES.copy(), shallow as well.
get_default_landcover == [cat \in DOMAIN LANDCOVER_CLASSES |-> LANDCOVER_CLASSES[cat]]

----------------------------------------------------------------------------
(* generate_map *)

\* shape(geometry) of shapely: a mapping of an unknown type raises.  A GeoJSON
\* Feature (what the draw tool returns) is read through its geometry by some
\* releases of the library and raises in the others: fail = "shape" is the latter.
ShapeOk(geometry, fail) ==
    /\ geometry.type \in {"Polygon", "Point"}
    /\ ~(geometry.feature /\ fail = "shape")

SetMin(xs) == CHOOSE x \in xs : \A y \in xs : x <= y
SetMax(xs) == CHOOSE x \in xs : \A y \in xs : y <= x

\* Bounds with latitude before longitude: (miny, minx, maxy, maxx).
BoundsLatLon(geometry) ==
    LET xs == {p[1] : p \in geometry.coords}
        ys == {p[2] : p \in geometry.coords}
    IN <<SetMin(ys), SetMin(xs), SetMax(ys), SetMax(xs)>>

\* geom.bounds: (minx, miny, maxx, maxy) over the geometry's coordinates.
Bounds(geometry) ==
    LET xs == {p[1] : p \in geometry.coords}
        ys == {p[2] : p \in geometry.coords}
    IN <<SetMin(xs), SetMin(ys), SetMax(xs), SetMax(ys)>>

\* Landcover with the defaults laid over the caller's categories.
LandcoverDefaultsWin(custom_landcover) ==
    DictUpdate(custom_landcover, get_default_landcover)

\* landcover = custom_landcover if custom_landcover else get_default_landcover()
Landcover(custom_landcover) ==
    IF DictTruthy(custom_landcover) THEN custom_landcover ELSE get_default_landcover

\* draw_settings = STYLES[style].copy(); if custom_settings: update(custom_settings)
DrawSettings(style, custom_settings) ==
    IF DictTruthy(custom_settings)
    THEN DictUpdate(STYLES[style], custom_settings)
    ELSE STYLES[style]

\* The plot_options keys copied under their own name.
CosmeticKeys ==
    {"shape", "bg_shape", "bg_color", "bg_buffer", "contour_color", "contour_width"}

\* The plot_options keys copied, when the title is on, under the name Plot gives them.
TitleKeys == {"text_size", "text_color", "text_x", "text_y", "text_rotation"}

PlotName(k) ==
    CASE k = "text_size" -> "font_size"
      [] k = "text_color" -> "font_color"
      [] OTHER -> k

\* plot_options.get("display_title", False)
NameOn(plot_options) ==
    IF "display_title" \in DOMAIN plot_options
    THEN plot_options["display_title"]
    ELSE PyBool(FALSE)

\* TitleParams without the test of name_on.
TitleParamsAlways(plot_options) ==
    LET ks == TitleKeys \cap DOMAIN plot_options
    IN [n \in {PlotName(k) : k \in ks} |->
            plot_options[CHOOSE k \in ks : PlotName(k) = n]]

\* The title parameters added to plot_params.
TitleParams(plot_options) ==
    IF PyTruthy(NameOn(plot_options))
    THEN LET ks == TitleKeys \cap DOMAIN plot_options
         IN [n \in {PlotName(k) : k \in ks} |->
                plot_options[CHOOSE k \in ks : PlotName(k) = n]]
    ELSE EmptyDict

\* plot_params as handed to Plot(**plot_params).
PlotParams(df, bounds, draw_settings, plot_options) ==
    LET base == [df |-> df, aoi_bounds |-> bounds, draw_settings |-> draw_settings]
    IN IF DictTruthy(plot_options)
       THEN DictUpdate(
                DictUpdate(
                    DictUpdate(base,
                               Restrict(plot_options, CosmeticKeys \cap DOMAIN plot_options)),
                    [k \in {"name_on"} |-> NameOn(plot_options)]),
                TitleParams(plot_options))
       ELSE base

\* The outcome of a call that raised after the steps tr.
Raised(tr, what, f, r) ==
    [pc |-> "raised", error |-> what, trace |-> tr, fetched |-> f, rendered |-> r,
     fig |-> None, df |-> None]

\* Where a call may fail for a reason outside the repository's code: nowhere, in
\* shape (see ShapeOk), in get_aoi (raising, or returning None), in
\* get_osm_geometries, in Plot.
FailurePoints == {"none", "shape", "get_aoi", "aoi_none", "get_osm_geometries", "Plot"}

\* generate_map(**r) over the heap h, as call number n, failing at `fail` if the
\* call gets that far.
GenerateMap(h, r, n, fail) ==
    IF ~ShapeOk(r.geometry, fail)
    THEN Raised(<<"shape">>, "shape", <<>>, <<>>)
    ELSE
    LET bounds == Bounds(r.geometry)
        aoi == <<"aoi", r.geometry>>
        landcover == Landcover(r.custom_landcover)
        fetch == [aoi |-> aoi, landcover |-> Deref(h, landcover)]
        df == <<"df", n>>
        t3 == <<"shape", "bounds", "get_aoi">>
        t5 == t3 \o <<"landcover", "get_osm_geometries">>
    IN
    IF fail = "get_aoi" THEN Raised(t3, "get_aoi", <<>>, <<>>)
    ELSE IF fail = "aoi_none" THEN Raised(t3, "Failed to create AOI.", <<>>, <<>>)
    ELSE IF fail = "get_osm_geometries"
    THEN Raised(t5, "get_osm_geometries", <<fetch>>, <<>>)
    ELSE IF r.style \notin DOMAIN STYLES
    THEN Raised(t5 \o <<"draw_settings">>, "KeyError", <<fetch>>, <<>>)
    ELSE
    LET draw_settings == DrawSettings(r.style, r.custom_settings)
        plot_params == PlotParams(df, bounds, Deref(h, draw_settings), r.plot_options)
        t8 == t5 \o <<"draw_settings", "plot_params", "Plot">>
    IN
    IF fail = "Plot" THEN Raised(t8, "Plot", <<fetch>>, <<plot_params>>)
    ELSE [pc |-> "returned", error |-> "", trace |-> t8 \o <<"return">>,
          fetched |-> <<fetch>>, rendered |-> <<plot_params>>,
          fig |-> <<"fig", n>>, df |-> df]

----------------------------------------------------------------------------
(* generate_map called with any arguments *)

\* Coordinates are drawn from the grid 0..MaxCoord x 0..MaxCoord.
MaxCoord == 1

Grid == (0..MaxCoord) \X (0..MaxCoord)

\* The geometries handed in: points, polygons with the corners {x1, x2} x {y1, y2}
\* (x1 = x2 or y1 = y2 gives a polygon that spans no area), and a mapping that is
\* no geometry.
Geometries ==
    {[type |-> "Point", coords |-> {p}, feature |-> FALSE] : p \in Grid}
        \cup {[type |-> "Polygon", coords |-> {p[1], q[1]} \X {p[2], q[2]},
               feature |-> FALSE] : p \in Grid, q \in Grid}
        \cup {[type |-> "Unknown", coords |-> {}, feature |-> FALSE]}

\* The style names asked for: the presets' and one that is no preset.
StyleInputs == StyleNames \cup {"Nope"}

\* The category dicts a caller puts in custom_settings: one that leaves keys of the
\* preset out, one that brings a key no preset has.
StyleDictInputs ==
    {[lw |-> PyInt(9)],
     [cmap |-> PyList(<<T("#000")>>), lw |-> PyInt(9), alpha |-> PyInt(7)]}

\* The categories a caller overrides: one of the presets', one of no preset.
StyleCategoryInputs == {"urban", "extra"}

\* custom_settings by value: category -> dict, over any subset of the categories
\* (the category of no preset always with the first dict).
CustomSettingsInputs ==
    UNION {{f \in [cs -> StyleDictInputs] :
                "extra" \in cs => f["extra"] = [lw |-> PyInt(9)]} :
           cs \in SUBSET StyleCategoryInputs}

\* The category dicts a caller puts in custom_landcover: toggles off and nothing
\* selected, or a subset selected.
LandcoverDictInputs(cat) ==
    IF cat = "urban"
    THEN {[building |-> PyBool(FALSE), landuse |-> PyList(<<>>)],
          [landuse |-> PyList(<<T("residential")>>)]}
    ELSE {[natural |-> PyList(<<>>)]}

\* custom_landcover by value.
CustomLandcoverInputs ==
    UNION {{f \in [cs -> UNION {LandcoverDictInputs(c) : c \in cs}] :
                \A c \in cs : f[c] \in LandcoverDictInputs(c)} :
           cs \in SUBSET LandcoverCategories}

\* Every key a caller may put in plot_options, with the value it gets.
PlotOptionValues ==
    [shape |-> S("circle"), bg_shape |-> S("circle"), bg_color |-> S("#EAEAEA"),
     bg_buffer |-> PyInt(2), contour_color |-> S("#2F3034"), contour_width |-> PyInt(1),
     custom_title |-> S("Town"), text_size |-> PyInt(25), text_color |-> S("#2F3034"),
     text_x |-> PyInt(0), text_y |-> PyInt(0), text_rotation |-> PyInt(0),
     name_on |-> PyBool(TRUE), title |-> S("Town"), font_size |-> PyInt(25),
     font_color |-> S("#2F3034")]

\* The groups of keys a caller supplies together: the title keys under the names
\* generate_map reads and under the names the script of app.py writes.
CosmeticKeyInputs == {{}, {"shape"}, CosmeticKeys}
TitleKeyInputs ==
    {{}, TitleKeys \cup {"custom_title", "name_on", "title", "font_size", "font_color"}}

\* plot_options: any union of the groups, bg_shape given as a shape or as None,
\* display_title absent, False or True.
PlotOptionInputs ==
    {DictUpdate(
        DictUpdate(Restrict(PlotOptionValues, ck \cup tk),
                   [k \in {"bg_shape"} \cap ck |-> bg]),
        [k \in (IF dt = None THEN {} ELSE {"display_title"}) |-> dt]) :
        ck \in CosmeticKeyInputs, tk \in TitleKeyInputs,
        bg \in {S("circle"), None}, dt \in {None, PyBool(FALSE), PyBool(TRUE)}}

\* The objects holding the category dicts of the arguments.
ArgObjects ==
    {<<"custom_settings", c>> : c \in StyleCategoryInputs}
        \cup {<<"custom_landcover", c>> : c \in LandcoverCategories}

\* A dict of category dicts given by value, as the dict of objects holding them.
ArgRefs(arg, byValue) == [c \in DOMAIN byValue |-> <<arg, c>>]

\* The heap at the call: the presets as loaded and the arguments' category dicts.
HeapAtCall(cs, cl) ==
    [o \in PresetObjects \cup ArgObjects |->
        IF o \in PresetObjects THEN PresetContents(o)
        ELSE IF o[1] = "custom_settings" /\ o[2] \in DOMAIN cs THEN cs[o[2]]
        ELSE IF o[1] = "custom_landcover" /\ o[2] \in DOMAIN cl THEN cl[o[2]]
        ELSE EmptyDict]

Sessions == {"s1", "s2"}

NoRequest ==
    [geometry |-> [type |-> "Unknown", coords |-> {}, feature |-> FALSE], style |-> "",
     custom_settings |-> EmptyDict, custom_landcover |-> EmptyDict,
     plot_options |-> EmptyDict]

InitGen ==
    /\ \E cs \in CustomSettingsInputs, cl \in CustomLandcoverInputs :
          /\ heap = HeapAtCall(cs, cl)
          /\ \E g \in Geometries, st \in StyleInputs, po \in PlotOptionInputs :
                req = [geometry |-> g, style |-> st,
                       custom_settings |-> ArgRefs("custom_settings", cs),
                       custom_landcover |-> ArgRefs("custom_landcover", cl),
                       plot_options |-> po]
    /\ session_state = [s \in Sessions |-> EmptyDict]
    /\ pc = "ready"
    /\ error = ""
    /\ trace = <<>>
    /\ fetched = <<>>
    /\ rendered = <<>>
    /\ shown = <<>>
    /\ nreq = 0
    /\ crs = None

\* One call of generate_map with the arguments req.
Call ==
    /\ pc = "ready"
    /\ \E fail \in FailurePoints :
          LET res == GenerateMap(heap, req, nreq + 1, fail)
          IN /\ pc' = res.pc
             /\ error' = res.error
             /\ trace' = res.trace
             /\ fetched' = res.fetched
             /\ rendered' = res.rendered
    /\ nreq' = nreq + 1
    /\ UNCHANGED <<heap, session_state, req, shown, crs>>

NextGen == Call

SpecGen == InitGen /\ [][NextGen]_vars

----------------------------------------------------------------------------
(* The projection resolver.  generate_map hands the geometry to get_aoi      *)
(* (utils.py line 44), which resolves the projected reference system; that   *)
(* code is not under src/.  resolve_crs below is written from section 4.2 of *)
(* spec.md.  Degrees are integers in thousandths of a degree.                *)

\* Twice the centroid of a bounding box (minx, miny, maxx, maxy): the centroid
\* itself may fall between two thousandths.
Centroid2(bbox) == <<bbox[1] + bbox[3], bbox[2] + bbox[4]>>

Clamp(n, lo, hi) == IF n < lo THEN lo ELSE IF n > hi THEN hi ELSE n

\* resolve_crs(bbox): zone = floor((cx + 180) / 6) + 1 clamped to [1, 60];
\* northern when cy >= 0; code = 32600 (north) or 32700 (south) plus the zone.
resolve_crs(bbox) ==
    LET c == Centroid2(bbox)
        zone == Clamp(((c[1] + 360000) \div 12000) + 1, 1, 60)
        north == c[2] >= 0
    IN [zone |-> zone, north |-> north,
        code |-> (IF north THEN 32600 ELSE 32700) + zone]

\* Half the width of the boxes resolved (half their height is half of this).
HalfExtent == 50

\* The longitudes of the zone edges, -180 to 180 degrees in steps of 6.
ZoneEdges == {-180000 + 6000 * i : i \in 0..60}

\* The centroids of the boxes resolved: at every zone edge and a thousandth of a
\* degree to either side of it, and at 10.05; at the ends of the latitude range,
\* at the equator and a thousandth to either side of it, and at 50.025.
Longitudes ==
    {x \in {e + d : e \in ZoneEdges, d \in {-1, 0, 1}} \cup {10050} :
        -180000 <= x /\ x <= 180000}
Latitudes == {-80000, -1, 0, 1, 50025, 84000}

\* The boxes resolved, as the polygons drawn: a point's extent and a box's.
CrsGeometries ==
    {[type |-> "Polygon", coords |-> {cx - hx, cx + hx} \X {cy - hy, cy + hy},
      feature |-> FALSE] :
        cx \in Longitudes, cy \in Latitudes,
        hx \in {0, HalfExtent}, hy \in {0, HalfExtent \div 2}}

InitCrs ==
    /\ heap = HeapAtCall(EmptyDict, EmptyDict)
    /\ session_state = [s \in Sessions |-> EmptyDict]
    /\ \E g \in CrsGeometries : req = [NoRequest EXCEPT !.geometry = g]
    /\ pc = "ready"
    /\ error = ""
    /\ trace = <<>>
    /\ fetched = <<>>
    /\ rendered = <<>>
    /\ shown = <<>>
    /\ nreq = 0
    /\ crs = None

\* The reference system is resolved for the bounds of the request's geometry.
ResolveCrs ==
    /\ pc = "ready"
    /\ crs' = resolve_crs(Bounds(req.geometry))
    /\ pc' = "resolved"
    /\ UNCHANGED <<heap, session_state, req, error, trace, fetched, rendered, shown, nreq>>

NextCrs == ResolveCrs

SpecCrs == InitCrs /\ [][NextCrs]_vars

----------------------------------------------------------------------------
(* The script of app.py.  Streamlit reruns it from the top for a session on  *)
(* every interaction of that session's user; the module utils and the       *)
(* library's presets are loaded once per process and shared by the sessions.*)
(* The script's copy at the end of utils.py (lines 126-360) runs once, when  *)
(* utils is first imported: it is a rerun with nothing pressed.              *)

\* The generate_map calls a process may make.
MaxRequests == 2

\* A value of session_state or of st_folium that is a GeoJSON mapping.
GeoJson(g) == <<"geojson", g>>

\* What the draw tool returns as last_active_drawing: a Feature holding the
\* rectangle drawn, or the centre of the circle drawn (a Point).
Drawings ==
    {GeoJson([type |-> "Polygon", coords |-> {0, 1} \X {0, 1}, feature |-> TRUE]),
     GeoJson([type |-> "Point", coords |-> {<<0, 0>>}, feature |-> TRUE])}

\* The key Streamlit knows a settings widget by: f"style_{category}_{key}",
\* f"landcover_{category}_{key}".
WidgetKey(loop, category, key) == <<loop, category, key>>

\* All sublists of a list, order kept.
RECURSIVE SubLists(_)
SubLists(l) ==
    IF l = <<>> THEN {<<>>}
    ELSE LET rest == SubLists(Tail(l))
         IN rest \cup {<<Head(l)>> \o r : r \in rest}

\* What a user may enter in a style widget: for each widget, a value of the
\* user's and the value the preset has when the process starts.
StyleEdits ==
    {<<WidgetKey("style", "urban", "lw"), PyInt(5)>>,
     <<WidgetKey("style", "urban", "lw"), PyInt(1)>>,
     <<WidgetKey("style", "urban", "cmap"), PyStr(<<>>)>>,
     <<WidgetKey("style", "urban", "cmap"), PyStr(<<"#FFC857", Comma, "#E9724C">>)>>}

\* What a user may enter in a landcover widget over the heap h: either state of
\* a checkbox, any selection among the options a multiselect offers.
LandcoverEdits(h) ==
    LET o == LANDCOVER_CLASSES["urban"]
    IN {<<WidgetKey("landcover", "urban", "building"), PyBool(b)>> : b \in BOOLEAN}
         \cup {<<WidgetKey("landcover", "urban", "landuse"), PyList(l)>> :
                  l \in SubLists(Val(h[o]["landuse"]))}

\* The interaction that sets a rerun off: the page is loaded or refreshed, a
\* shape is drawn, a settings widget is edited, Generate Map is pressed.
NoEdit == <<WidgetKey("", "", ""), None>>

\* A widget called with the key k and the default d: the value the user has just
\* entered when this is the widget edited, otherwise the value it holds, d (the
\* framework identifies a widget by its arguments, the default included: a
\* default that has changed since the last run shows the widget afresh with it).
Widget(k, d, edit) == IF edit[1] = k THEN edit[2] ELSE d

\* The value the style loop stores for a key holding `value`.
StyleWidget(category, key, value, edit) ==
    CASE Tag(value) \in {"int", "float", "bool"} ->
            Widget(WidgetKey("style", category, key), value, edit)
      [] Tag(value) = "str" ->
            Widget(WidgetKey("style", category, key), value, edit)
      [] Tag(value) = "list" ->
            PyList(Split(Val(
                Widget(WidgetKey("style", category, key), PyStr(Join(Val(value))), edit))))
      [] OTHER -> value

\* The value the landcover loop stores for a key holding `value`.
LandcoverWidget(category, key, value, edit) ==
    CASE Tag(value) = "bool" ->
            Widget(WidgetKey("landcover", category, key), value, edit)
      [] Tag(value) = "list" ->
            Widget(WidgetKey("landcover", category, key), value, edit)
      [] OTHER -> value

\* The style loop over default_style: default_style[category][key] = <widget>
\* writes into the category dict, which is the preset's own.
StyleLoop(h, default_style, edit) ==
    LET objs == {default_style[c] : c \in DOMAIN default_style}
        cat(o) == CHOOSE c \in DOMAIN default_style : default_style[c] = o
    IN [o \in DOMAIN h |->
           IF o \in objs
           THEN [key \in DOMAIN h[o] |-> StyleWidget(cat(o), key, h[o][key], edit)]
           ELSE h[o]]

\* The landcover loop over default_landcover, writing likewise.
LandcoverLoop(h, default_landcover, edit) ==
    LET objs == {default_landcover[c] : c \in DOMAIN default_landcover}
        cat(o) == CHOOSE c \in DOMAIN default_landcover : default_landcover[c] = o
    IN [o \in DOMAIN h |->
           IF o \in objs
           THEN [key \in DOMAIN h[o] |-> LandcoverWidget(cat(o), key, h[o][key], edit)]
           ELSE h[o]]

\* The theme and plot widgets as the page first shows them: index=0, value=...
PlotWidgetDefaults ==
    [theme |-> "Peach",
     map_shape |-> S("circle"),
     bg_shape |-> S("rectangle"),
     bg_color |-> S("#EAEAEA"),
     bg_size |-> PyInt(2),
     contour_color |-> S("#2F3034"),
     contour_width |-> PyInt(1),
     display_title |-> PyBool(TRUE),
     custom_title |-> PyStr(<<>>),
     title_font_size |-> PyInt(25),
     title_font_color |-> S("#2F3034"),
     title_x |-> PyInt(0),
     title_y |-> PyInt(0),
     title_rotation |-> PyInt(0)]

\* The values of the theme and plot widgets in a rerun: as first shown, or with
\* one of them changed by the user.
PlotWidgetInputs ==
    {PlotWidgetDefaults}
        \cup {[PlotWidgetDefaults EXCEPT !.theme = t] : t \in get_available_themes}
        \cup {[PlotWidgetDefaults EXCEPT !.bg_shape = S("None")],
              [PlotWidgetDefaults EXCEPT !.display_title = PyBool(FALSE)],
              [PlotWidgetDefaults EXCEPT !.custom_title = S("Town")]}

\* plot_options as the Generate Map handler collects them.
PlotOptions(w) ==
    LET base ==
            [shape |-> w.map_shape,
             bg_shape |-> IF w.bg_shape # S("None") THEN w.bg_shape ELSE None,
             bg_color |-> w.bg_color,
             bg_buffer |-> w.bg_size,
             contour_color |-> w.contour_color,
             contour_width |-> w.contour_width]
        title == [k \in (IF PyTruthy(w.custom_title) THEN {"title"} ELSE {}) |->
                    w.custom_title]
    IN IF PyTruthy(w.display_title)
       THEN DictUpdate(DictUpdate(base, title),
                       [name_on |-> PyBool(TRUE),
                        font_size |-> w.title_font_size,
                        font_color |-> w.title_font_color,
                        text_x |-> w.title_x,
                        text_y |-> w.title_y,
                        text_rotation |-> w.title_rotation])
       ELSE DictUpdate(base, [name_on |-> PyBool(FALSE)])

\* st.session_state.k = None for the three keys, whether they are set or not.
InitSessionStateAfresh(ss) ==
    [drawn_polygon |-> None, map_fig |-> None, map_data |-> None]

\* if 'k' not in st.session_state: st.session_state.k = None, for the three keys.
InitSessionState(ss) ==
    DictUpdate([drawn_polygon |-> None, map_fig |-> None, map_data |-> None], ss)

\* Where a rerun may fail for a reason outside the repository's code: as a
\* generate_map call may, or after it in fig.plot_all() (line 213), in
\* fig.plot_all().savefig (220), in save_map_data (234).
RerunFailurePoints == FailurePoints \cup {"plot_all", "savefig", "save_map_data"}

\* The runs a press of Generate Map sets off: any widget values when nothing
\* fails, every failure point with the widgets as first shown.
PressInputs ==
    (PlotWidgetInputs \X {"none"}) \cup ({PlotWidgetDefaults} \X RerunFailurePoints)

\* What a rerun with nothing to generate leaves of the latest call.
Idle ==
    [pc |-> "idle", error |-> "", trace |-> <<>>, fetched |-> <<>>, rendered |-> <<>>,
     fig |-> None, df |-> None]

\* One run of the script for session s: drawing is what st_folium returns as
\* last_active_drawing, edit the settings widget edited (or NoEdit), pressed
\* whether Generate Map was pressed, w the theme and plot widgets, fail where the
\* run fails.
Rerun(s, drawing, edit, pressed, w, fail) ==
    LET ss0 == InitSessionState(session_state[s])
        default_style == get_default_style
        default_landcover == get_default_landcover
        ss1 == IF PyTruthy(drawing) THEN [ss0 EXCEPT !["drawn_polygon"] = drawing]
               ELSE ss0
        generate == pressed /\ PyTruthy(ss1["drawn_polygon"])
        r == [geometry |-> Val(ss1["drawn_polygon"]), style |-> w.theme,
              custom_settings |-> default_style, custom_landcover |-> default_landcover,
              plot_options |-> PlotOptions(w)]
        Page(res) ==
            IF ~pressed THEN <<>>
            ELSE IF ~generate THEN <<"warning">>
            ELSE IF res.pc = "raised" THEN <<"error">>
            ELSE IF fail = "plot_all" THEN <<"error">>
            ELSE IF fail = "savefig" THEN <<"pyplot", "error">>
            ELSE IF fail = "save_map_data" THEN <<"pyplot", "download_image", "error">>
            ELSE <<"pyplot", "download_image", "download_data">>
    IN \E h \in {LandcoverLoop(StyleLoop(heap, default_style, edit),
                               default_landcover, edit)} :
       \E res \in {IF generate THEN GenerateMap(h, r, nreq + 1, fail) ELSE Idle} :
       \E page \in {Page(res)} :
          /\ heap' = h
          /\ session_state' =
                [session_state EXCEPT ![s] =
                    IF res.pc = "returned"
                    THEN [ss1 EXCEPT !["map_fig"] = res.fig, !["map_data"] = res.df]
                    ELSE ss1]
          /\ req' = IF generate THEN r ELSE NoRequest
          /\ pc' = res.pc
          /\ error' = IF res.pc = "returned" /\ page[Len(page)] = "error" THEN fail
                      ELSE res.error
          /\ trace' = res.trace
          /\ fetched' = res.fetched
          /\ rendered' = res.rendered
          /\ shown' = page
          /\ nreq' = IF generate THEN nreq + 1 ELSE nreq
          /\ crs' = crs

\* The page is loaded or refreshed.
PageLoad(s) ==
    Rerun(s, None, NoEdit, FALSE, PlotWidgetDefaults, "none")

\* The user draws a shape.
DrawArea(s) ==
    \E d \in Drawings : Rerun(s, d, NoEdit, FALSE, PlotWidgetDefaults, "none")

\* The user edits a style or landcover widget.
EditWidget(s) ==
    \E e \in StyleEdits \cup LandcoverEdits(heap) :
        Rerun(s, None, e, FALSE, PlotWidgetDefaults, "none")

\* The user presses Generate Map with nothing drawn yet.
PressGenerateEarly(s) ==
    /\ ~PyTruthy(InitSessionState(session_state[s])["drawn_polygon"])
    /\ Rerun(s, None, NoEdit, TRUE, PlotWidgetDefaults, "none")

\* The user presses Generate Map with an area drawn.
PressGenerate(s) ==
    /\ PyTruthy(InitSessionState(session_state[s])["drawn_polygon"])
    /\ nreq < MaxRequests
    /\ \E in \in PressInputs : Rerun(s, None, NoEdit, TRUE, in[1], in[2])

Init ==
    /\ heap = HeapAtCall(EmptyDict, EmptyDict)
    /\ session_state = [s \in Sessions |-> EmptyDict]
    /\ req = NoRequest
    /\ pc = "idle"
    /\ error = ""
    /\ trace = <<>>
    /\ fetched = <<>>
    /\ rendered = <<>>
    /\ shown = <<>>
    /\ nreq = 0
    /\ crs = None

Next ==
    \E s \in Sessions :
        \/ PageLoad(s)
        \/ DrawArea(s)
        \/ EditWidget(s)
        \/ PressGenerateEarly(s)
        \/ PressGenerate(s)

Spec == Init /\ [][Next]_vars

----------------------------------------------------------------------------
(* Properties of generate_map *)

\* The parameters of a Plot call that are not cosmetic options.
DataParams == {"df", "aoi_bounds", "draw_settings"}

\* The arguments of the latest call, by value.
PresetOf(style) == Deref(heap, STYLES[style])
StyleOverrides == Deref(heap, req.custom_settings)
LandcoverOverrides == Deref(heap, req.custom_landcover)

\* C1: the style settings handed to Plot hold, for every category and key of the
\* chosen style's preset, the override's value when custom_settings supplies that
\* (category, key) pair, and the preset's value otherwise.
C1_StyleMergePerLeaf ==
    \A i \in DOMAIN rendered :
        LET ds == rendered[i]["draw_settings"]
            preset == PresetOf(req.style)
        IN \A cat \in DOMAIN preset : \A key \in DOMAIN preset[cat] :
              /\ cat \in DOMAIN ds
              /\ key \in DOMAIN ds[cat]
              /\ ds[cat][key] =
                    IF cat \in DOMAIN StyleOverrides /\ key \in DOMAIN StyleOverrides[cat]
                    THEN StyleOverrides[cat][key]
                    ELSE preset[cat][key]

\* The title is disabled in plot_options: display_title is absent or False.
TitleDisabled(plot_options) ==
    \/ "display_title" \notin DOMAIN plot_options
    \/ plot_options["display_title"] = PyBool(FALSE)

\* The names of Plot's title parameters and of the title keys of plot_options.
TitleParamNames ==
    {"title", "name", "custom_title", "font_size", "font_color", "text_size",
     "text_color", "text_x", "text_y", "text_rotation"}

\* C3: when the title is disabled in plot_options, no Plot call of the request
\* carries a title text, font or position parameter, whatever was supplied.
C3_TitleStripped ==
    \A i \in DOMAIN rendered :
        TitleDisabled(req.plot_options) =>
            (DOMAIN rendered[i]) \cap TitleParamNames = {}

\* A Plot call was made for plot_options that disable the title explicitly and
\* supply every title key.
C3_Witness ==
    /\ pc = "returned"
    /\ rendered # <<>>
    /\ "display_title" \in DOMAIN req.plot_options
    /\ req.plot_options["display_title"] = PyBool(FALSE)
    /\ TitleKeys \subseteq DOMAIN req.plot_options
    /\ "title" \in DOMAIN req.plot_options

\* The plot_options keys a Plot parameter may come from.
SourceKeys(param) ==
    CASE param = "name_on" -> {"name_on", "display_title"}
      [] param = "font_size" -> {"font_size", "text_size"}
      [] param = "font_color" -> {"font_color", "text_color"}
      [] OTHER -> {param}

\* C4: every cosmetic parameter of a Plot call (name_on included) comes from a key
\* that plot_options supplied.
C4_OnlySuppliedKeysForwarded ==
    \A i \in DOMAIN rendered :
        \A param \in (DOMAIN rendered[i]) \ DataParams :
            SourceKeys(param) \cap DOMAIN req.plot_options # {}

\* C6: a style name that is no preset makes the call fail with neither
\* get_osm_geometries nor Plot called.
C6_UnknownStyleBeforeCollaborators ==
    (pc # "ready" /\ req.style \notin DOMAIN STYLES) =>
        (pc = "raised" /\ fetched = <<>> /\ rendered = <<>>)

\* C7: the style settings handed to Plot hold no category that the chosen style's
\* preset lacks and, in a category, no key that the preset's category lacks.
C7_BaseStyleDefinesSchema ==
    \A i \in DOMAIN rendered :
        LET ds == rendered[i]["draw_settings"]
            preset == PresetOf(req.style)
        IN /\ DOMAIN ds \subseteq DOMAIN preset
           /\ \A cat \in DOMAIN ds : DOMAIN ds[cat] \subseteq DOMAIN preset[cat]

\* The bounds span no area.
ZeroArea(b) == b[1] = b[3] \/ b[2] = b[4]

\* C9: a geometry whose extent has minx = maxx or miny = maxy makes the call fail,
\* and no bounds with minx >= maxx or miny >= maxy reach get_osm_geometries or Plot.
C9_ZeroAreaRejected ==
    /\ (pc # "ready" /\ ShapeOk(req.geometry, "none")
            /\ ZeroArea(Bounds(req.geometry))) =>
            (pc = "raised" /\ fetched = <<>> /\ rendered = <<>>)
    /\ \A i \in DOMAIN rendered :
            LET b == rendered[i]["aoi_bounds"] IN b[1] < b[3] /\ b[2] < b[4]
    /\ \A i \in DOMAIN fetched :
            LET b == Bounds(fetched[i].aoi[2]) IN b[1] < b[3] /\ b[2] < b[4]

\* C10: the landcover handed to get_osm_geometries holds, for every category of
\* custom_landcover, that category's dict as the caller gave it: its toggles, its
\* selected subsets, and an empty selection as an empty selection.
C10_LandcoverOverridesKept ==
    \A i \in DOMAIN fetched :
        \A cat \in DOMAIN LandcoverOverrides :
            /\ cat \in DOMAIN fetched[i].landcover
            /\ fetched[i].landcover[cat] = LandcoverOverrides[cat]
            /\ \A key \in DOMAIN LandcoverOverrides[cat] :
                  LandcoverOverrides[cat][key] = PyList(<<>>) =>
                      fetched[i].landcover[cat][key] = PyList(<<>>)

\* get_osm_geometries was called with an override that selects nothing in a
\* category whose preset selects something.
C10_Witness ==
    /\ fetched # <<>>
    /\ "urban" \in DOMAIN LandcoverOverrides
    /\ LandcoverOverrides["urban"]["landuse"] = PyList(<<>>)
    /\ PresetContents(LANDCOVER_CLASSES["urban"])["landuse"] # PyList(<<>>)
    /\ fetched[1].landcover["urban"]["landuse"] = PyList(<<>>)

----------------------------------------------------------------------------
(* Properties of the projection resolver *)

----------------------------------------------------------------------------
(* Properties of the script *)

\* C2: the presets are immutable: whatever runs, edits and requests the sessions
\* of the process have made, every category dict of STYLES and of
\* LANDCOVER_CLASSES holds what it held when the process started.
C2_PresetsImmutable ==
    \A o \in PresetObjects : heap[o] = PresetContents(o)

\* C5: no cosmetic parameter of a Plot call is None: an option set to "None" is
\* left out of the call.
C5_NoNullCosmeticOption ==
    \A i \in DOMAIN rendered :
        \A param \in (DOMAIN rendered[i]) \ DataParams :
            rendered[i][param] # None

----------------------------------------------------------------------------
(* Properties of the order of the steps *)

\* The positions of a step in the latest call's trace.
Pos(step) == {i \in DOMAIN trace : trace[i] = step}

\* Every occurrence of step a comes before every occurrence of step b.
Before(a, b) == \A i \in Pos(a), j \in Pos(b) : i < j

\* The steps that assemble settings: landcover, style settings, plot parameters.
SettingsSteps == {"landcover", "draw_settings", "plot_params"}

\* C11: in every call the settings are assembled before get_osm_geometries is
\* called, the fetched table is reprojected after get_osm_geometries and before
\* Plot is called, and a call that raised ran no step after the one that failed.
C11_PipelineOrder ==
    /\ \A st \in SettingsSteps : Before(st, "get_osm_geometries")
    /\ Pos("Plot") # {} =>
          \E k \in Pos("reproject") :
              /\ \A i \in Pos("get_osm_geometries") : i < k
              /\ \A j \in Pos("Plot") : k < j
    /\ pc = "raised" =>
          /\ Pos("return") = {}
          /\ Pos("Plot") # {} => error = "Plot"
          /\ (Pos("get_osm_geometries") # {} /\ Pos("draw_settings") = {}) =>
                error = "get_osm_geometries"

----------------------------------------------------------------------------
(* Properties of the Generate Map handler *)

\* What a session has stored under a key (None before the session's first run).
Stored(ss, s, key) == IF key \in DOMAIN ss[s] THEN ss[s][key] ELSE None

\* The failures of the render collaborator: in Plot(**plot_params), where the
\* handle is built, and in fig.plot_all(), where its image is made.
RenderFailures == {"Plot", "plot_all"}

\* C12: a run of a request in which get_osm_geometries succeeded and the render
\* collaborator then failed leaves every session's map_fig and map_data as they
\* were before the run.
C12_NoPartialResult ==
    [][(nreq' = nreq + 1 /\ fetched' # <<>> /\ error' \in RenderFailures) =>
          \A s \in Sessions :
              /\ Stored(session_state', s, "map_fig") = Stored(session_state, s, "map_fig")
              /\ Stored(session_state', s, "map_data") = Stored(session_state, s, "map_data")]_vars

\* The title parameters the script puts in plot_options when the title is on.
TitleOptionNames == {"font_size", "font_color", "text_x", "text_y", "text_rotation"}

\* C13: when the plot_options the script built have the title on (name_on True),
\* Plot is called with name_on True and with the font size, font colour, x, y and
\* rotation of plot_options; when they have it off, Plot is called with name_on
\* False.
C13_TitleToggleReachesRender ==
    \A i \in DOMAIN rendered :
        LET po == req.plot_options
            params == rendered[i]
        IN "name_on" \in DOMAIN po =>
              /\ "name_on" \in DOMAIN params
              /\ params["name_on"] = po["name_on"]
              /\ po["name_on"] = PyBool(TRUE) =>
                    \A k \in TitleOptionNames :
                        k \in DOMAIN params /\ params[k] = po[k]

\* The collaborators were called in the latest run.
Invoked == fetched # <<>> \/ rendered # <<>>

\* C14: get_osm_geometries and Plot are called only in a run where Generate Map
\* was pressed (the run put more on the page than nothing or the warning) for an
\* area that a session has stored; a session that has no area stored has map_fig
\* and map_data None, and a run that only warns calls no collaborator; and an
\* area a session has stored is never replaced by none.
C14_CollaboratorsOnlyOnGenerate ==
    /\ [](/\ Invoked =>
                /\ shown # <<>>
                /\ shown # <<"warning">>
                /\ \E s \in Sessions :
                      /\ PyTruthy(Stored(session_state, s, "drawn_polygon"))
                      /\ Stored(session_state, s, "drawn_polygon") = GeoJson(req.geometry)
          /\ shown = <<"warning">> => ~Invoked
          /\ \A s \in Sessions :
                ~PyTruthy(Stored(session_state, s, "drawn_polygon")) =>
                    /\ Stored(session_state, s, "map_fig") = None
                    /\ Stored(session_state, s, "map_data") = None)
    /\ [][\A s \in Sessions :
            PyTruthy(Stored(session_state, s, "drawn_polygon")) =>
                PyTruthy(Stored(session_state', s, "drawn_polygon"))]_vars

\* Both collaborators were called for the area one session has stored, while
\* another session has run the script and has no area stored.
C14_Witness ==
    /\ fetched # <<>>
    /\ rendered # <<>>
    /\ \E s, t \in Sessions :
          /\ Stored(session_state, s, "drawn_polygon") = GeoJson(req.geometry)
          /\ "drawn_polygon" \in DOMAIN session_state[t]
          /\ ~PyTruthy(Stored(session_state, t, "drawn_polygon"))


=============================================================================
